---- MODULE Spec2Model ----
(***************************************************************************)
(* Model of src/src/main.rs: the driver `main`, the vector kernel          *)
(* `mandlebrot_simd`, the scalar kernel `mandlebrot` and `write_image`.    *)
(*                                                                         *)
(* f32 is modelled as a binary format of reduced precision and range: a    *)
(* finite value is an integer n standing for n / Scale, |n| <= MaxFinite,  *)
(* rounded to nearest (ties to even) after every operation, overflowing    *)
(* to the infinities, with a NaN that compares false to everything.  Both  *)
(* kernels use the same operations in the same order as the source.        *)
(***************************************************************************)
EXTENDS Integers, Sequences, FiniteSets, TLC

\* ---------------------------------------------------------------- bounds
MaxGroups == 2
MaxHeight == 2
FracBits == 6
MaxFinite == 40000

\* ----------------------------------------------------- program constants
Lanes == 8
MAX_ITER == 256
U8Max == 255

\* --------------------------------------------------------- f32 arithmetic
Scale == 2 ^ FracBits
PInf == MaxFinite + 1
NInf == 0 - (MaxFinite + 1)
NaN == MaxFinite + 2
UsizeMax == MaxFinite + 3

IsFinite(a) == a >= 0 - MaxFinite /\ a <= MaxFinite

Overflow(n) == IF n > MaxFinite THEN PInf ELSE IF n < 0 - MaxFinite THEN NInf ELSE n

\* p / d rounded to the nearest integer, ties to even (d > 0)
RoundDiv(p, d) ==
    LET q == p \div d
        r == p % d
    IN  IF 2 * r > d THEN q + 1
        ELSE IF 2 * r < d THEN q
        ELSE IF q % 2 = 0 THEN q ELSE q + 1

Sign(a) == IF a > 0 THEN 1 ELSE IF a < 0 THEN 0 - 1 ELSE 0

FNeg(a) == IF a = NaN THEN NaN ELSE 0 - a

FAdd(a, b) ==
    IF a = NaN \/ b = NaN THEN NaN
    ELSE IF ~IsFinite(a) THEN (IF ~IsFinite(b) /\ b # a THEN NaN ELSE a)
    ELSE IF ~IsFinite(b) THEN b
    ELSE Overflow(a + b)

FSub(a, b) == FAdd(a, FNeg(b))

FMul(a, b) ==
    IF a = NaN \/ b = NaN THEN NaN
    ELSE IF ~IsFinite(a) \/ ~IsFinite(b)
         THEN (IF a = 0 \/ b = 0 THEN NaN
               ELSE IF Sign(a) * Sign(b) > 0 THEN PInf ELSE NInf)
    ELSE Overflow(RoundDiv(a * b, Scale))

FDiv(a, b) ==
    IF a = NaN \/ b = NaN THEN NaN
    ELSE IF ~IsFinite(b) THEN (IF ~IsFinite(a) THEN NaN ELSE 0)
    ELSE IF b = 0 THEN (IF a = 0 THEN NaN ELSE IF a > 0 THEN PInf ELSE NInf)
    ELSE IF ~IsFinite(a) THEN (IF Sign(a) * Sign(b) > 0 THEN PInf ELSE NInf)
    ELSE IF b > 0 THEN Overflow(RoundDiv(a * Scale, b))
    ELSE Overflow(RoundDiv((0 - a) * Scale, 0 - b))

FLt(a, b) == a # NaN /\ b # NaN /\ a < b

\* a <= b and a > b on f32: both are false when an operand is NaN
FLe(a, b) == a # NaN /\ b # NaN /\ a <= b
FGt(a, b) == a # NaN /\ b # NaN /\ a > b

\* `n as f32` for an unsigned integer n
FromInt(n) == Overflow(n * Scale)

\* `f as usize`: truncates toward zero, saturates, NaN gives 0
ToUsize(f) ==
    IF f = NaN THEN 0
    ELSE IF f <= 0 THEN 0
    ELSE IF f = PInf THEN UsizeMax
    ELSE f \div Scale

\* the same cast with the result wrapped into 8 bits instead of saturated
ToU8Wrap(f) == ToUsize(f) % (U8Max + 1)

\* `f as u8` for an f32 f: truncates toward zero, saturates at 0 and 255
ToU8(f) == IF ToUsize(f) > U8Max THEN U8Max ELSE ToUsize(f)

\* `iter as u8` for the scalar kernel's integer counter
IntToU8(i) == i % (U8Max + 1)

One == FromInt(1)
Four == FromInt(4)

SelectFirst(m, a, b) == a

\* Msimd::select on one lane
Select(m, a, b) == IF m THEN a ELSE b

\* ------------------------------------------------------------- the inputs
LaneIdx == 0 .. (Lanes - 1)

\* the lane offsets 0., 1., ..., of which the first Lanes are loaded
LaneOffsets == [l \in LaneIdx |-> FromInt(l)]

ComplexArea(a, b, c, d) == [cmin_r |-> a, cmax_r |-> b, cmin_i |-> c, cmax_i |-> d]

\* main's viewport: -2.0 .. 1.0, -1.5 .. 1.5
MainArea == ComplexArea(0 - 2 * Scale, Scale, 0 - (3 * Scale) \div 2, (3 * Scale) \div 2)

\* a viewport whose samples include (0, 0) and (2, 0)
AxisArea == ComplexArea(0, FromInt(16), FromInt(0) - FromInt(2), 0)

\* a viewport so far out that z * z overflows (in f32: bounds near 1e20)
FarArea == ComplexArea(FromInt(100), FromInt(116), FromInt(100), FromInt(116))

\* a viewport on the real axis right of the set: every sample escapes, at
\* a step that differs from lane to lane
EdgeArea == ComplexArea(Scale \div 2, (3 * Scale) \div 2, 0 - Scale, 0)

Areas == {MainArea, AxisArea, FarArea, EdgeArea}

Widths == {Lanes * g : g \in 1 .. MaxGroups}
AnyWidths == 1 .. (Lanes * MaxGroups)
Heights == 1 .. MaxHeight

SimdPng == "mandlebrot_simd.png"
SeqPng == "mandlebrot_sequential.png"
Paths == {SimdPng, SeqPng}

NoFile == [i \in {} |-> 0]

\* ------------------------------------------------------------------ state
VARIABLES
    pc,          \* control point of main
    arch,        \* target architecture the binary was built for
    avx2,        \* what is_x86_feature_detected!("avx2") answers on this machine
    area,        \* complex_area
    width,       \* WIDTH
    height,      \* HEIGHT
    image,       \* image: Vec<u8>, as a function on 0 .. len-1
    files,       \* the two output files: path -> bytes written (NoFile: none)
    stdout,      \* lines printed
    y, x, n,     \* kernel loop variables: row, column, inner loop counter
    c_r, c_i,    \* sample point (a value in mandlebrot, a lane vector in mandlebrot_simd)
    z_r, z_i,    \* orbit value
    unfinished,  \* lane mask of mandlebrot_simd
    iter,        \* iteration count
    events,      \* history: kernel and file events in the order they happened
    written,     \* history: index -> number of stores by the running kernel
    owner,       \* history: index -> the call that last stored there
    oob          \* history: an index outside the buffer was accessed

locals == <<y, x, n, c_r, c_i, z_r, z_i, unfinished, iter>>
inputs == <<arch, avx2, area, width, height>>
history == <<events, written, owner, oob>>
vars == <<pc, inputs, image, files, stdout, locals, history>>

\* image.len(): (WIDTH * HEIGHT) as usize
BufLen == width * height
Indices == 0 .. (BufLen - 1)

\* scale_x, scale_y of both kernels
scale_x == FDiv(FSub(area.cmax_r, area.cmin_r), FromInt(width))
scale_y == FDiv(FSub(area.cmax_i, area.cmin_i), FromInt(height))

\* RegionMapper: c_r for column value vx, c_i for row yy
MapR(vx) == FAdd(area.cmin_r, FMul(vx, scale_x))
MapI(yy) == FSub(area.cmax_i, FMul(FromInt(yy), scale_y))

\* one step of the recurrence z <- z*z + c
NextZr(zr, zi, cr) == FAdd(FSub(FMul(zr, zr), FMul(zi, zi)), cr)
NextZi(zr, zi, ci) == FAdd(FAdd(FMul(zr, zi), FMul(zr, zi)), ci)
AbsSquare(zr, zi) == FAdd(FMul(zr, zr), FMul(zi, zi))

IdleLocals ==
    /\ y' = 0 /\ x' = 0 /\ n' = 0
    /\ c_r' = 0 /\ c_i' = 0 /\ z_r' = 0 /\ z_i' = 0
    /\ unfinished' = FALSE /\ iter' = 0

InitCommon ==
    /\ pc = "main"
    /\ arch \in {"x86_64", "other"}
    /\ avx2 \in BOOLEAN
    /\ (arch = "other") => (avx2 = FALSE)
    /\ area \in Areas
    /\ height \in Heights
    /\ image = NoFile
    /\ files = [p \in Paths |-> NoFile]
    /\ stdout = << >>
    /\ y = 0 /\ x = 0 /\ n = 0
    /\ c_r = 0 /\ c_i = 0 /\ z_r = 0 /\ z_i = 0
    /\ unfinished = FALSE /\ iter = 0
    /\ events = << >>
    /\ written = NoFile
    /\ owner = NoFile
    /\ oob = FALSE

\* main's raster: a width that is a multiple of the lane count
Init == InitCommon /\ width \in Widths

\* the kernels called on any width
InitAnyWidth == InitCommon /\ width \in AnyWidths

\* ------------------------------------------------------------------- main
\* #[cfg(not(target_arch = "x86_64"))] fn main
MainOther ==
    /\ pc = "main" /\ arch = "other"
    /\ stdout' = Append(stdout, "SIMD and AVX2 are not supported on this platform.")
    /\ pc' = "done"
    /\ UNCHANGED <<inputs, image, files, locals, history>>

\* let mut image = vec![0; WIDTH * HEIGHT]
MainAlloc ==
    /\ pc = "main" /\ arch = "x86_64"
    /\ image' = [i \in Indices |-> 0]
    /\ owner' = [i \in Indices |-> "init"]
    /\ written' = [i \in Indices |-> 0]
    /\ pc' = "detect"
    /\ UNCHANGED <<inputs, files, stdout, locals, events, oob>>

DetectedAlways == TRUE

\* is_x86_feature_detected!("avx2")
Detected == avx2

Detect ==
    /\ pc = "detect"
    /\ IF Detected
       THEN /\ stdout' = stdout \o <<"AVX2 is supported!", "Mandlebrot size">>
            /\ pc' = "simd_call"
       ELSE /\ stdout' = Append(stdout, "AVX2 is not supported on this platform.")
            /\ pc' = "done"
    /\ UNCHANGED <<inputs, image, files, locals, history>>

\* write_image(path, &image, ..): the file gets the whole buffer, or an
\* unwrap() panics on an I/O error
WriteImage(path, ev, next) ==
    \/ /\ files' = [files EXCEPT ![path] = image]
       /\ events' = Append(events, ev)
       /\ pc' = next
    \/ /\ pc' = "panic"
       /\ UNCHANGED <<files, events>>

AfterSimdSkipWrite == "seq_call"

\* where main continues when mandlebrot_simd returns
AfterSimd == "simd_write"

WriteSimd ==
    /\ pc = "simd_write"
    /\ WriteImage(SimdPng, "simd_png", "seq_call")
    /\ UNCHANGED <<inputs, image, stdout, locals, written, owner, oob>>

WriteSeq ==
    /\ pc = "seq_write"
    /\ WriteImage(SeqPng, "seq_png", "done")
    /\ UNCHANGED <<inputs, image, stdout, locals, written, owner, oob>>

\* -------------------------------------------------------- mandlebrot_simd
\* vx = splat(x as f32) + lane offsets
Vx(xx) == [l \in LaneIdx |-> FAdd(FromInt(xx), LaneOffsets[l])]

SimdIterInitZero == FromInt(0)

\* let mut iter = Fsimd::splat(1.)
SimdIterInit == One

IndexNoRow(v, yy) == ToUsize(v)

\* index = vx + (y * width) as f32, then `as usize`
Index(v, yy) == ToUsize(FAdd(v, FromInt(yy * width)))

\* the stores of one call `image[idx[k]] = val[k]` for k = 0 .. count-1, in
\* order; the first index outside the buffer panics and ends the stores
FirstBad(idx, count) ==
    LET bad == {k \in 0 .. (count - 1) : idx[k] >= BufLen}
    IN  IF bad = {} THEN count ELSE CHOOSE k \in bad : \A j \in bad : k <= j

Store(idx, val, count, who, next) ==
    LET done == FirstBad(idx, count)
        hit(i) == {k \in 0 .. (done - 1) : idx[k] = i}
        last(i) == CHOOSE k \in hit(i) : \A j \in hit(i) : j <= k
    IN  /\ image' = [i \in Indices |-> IF hit(i) = {} THEN image[i] ELSE val[last(i)]]
        /\ written' = [i \in Indices |-> written[i] + Cardinality(hit(i))]
        /\ owner' = [i \in Indices |-> IF hit(i) = {} THEN owner[i] ELSE who]
        /\ oob' = (oob \/ done < count)
        /\ pc' = IF done < count THEN "panic" ELSE next

SimdCall ==
    /\ pc = "simd_call"
    /\ events' = Append(events, "simd_start")
    /\ written' = [i \in Indices |-> 0]
    /\ y' = 0 /\ x' = 0
    /\ pc' = "simd_group"
    /\ UNCHANGED <<inputs, image, files, stdout, n, c_r, c_i, z_r, z_i,
                   unfinished, iter, owner, oob>>

\* lines 31-49: start the lane group at (x, y)
SimdGroup ==
    /\ pc = "simd_group" /\ y < height
    /\ c_r' = [l \in LaneIdx |-> MapR(Vx(x)[l])]
    /\ c_i' = [l \in LaneIdx |-> MapI(y)]
    /\ z_r' = c_r'
    /\ z_i' = c_i'
    /\ unfinished' = [l \in LaneIdx |-> TRUE]
    /\ iter' = [l \in LaneIdx |-> SimdIterInit]
    /\ n' = 1
    /\ pc' = "simd_iter"
    /\ UNCHANGED <<inputs, image, files, stdout, y, x, history>>

\* lines 51-70: one pass of `for _ in 1..MAX_ITER`
SimdIter ==
    /\ pc = "simd_iter"
    /\ LET next_z_r == [l \in LaneIdx |-> NextZr(z_r[l], z_i[l], c_r[l])]
           next_z_i == [l \in LaneIdx |-> NextZi(z_r[l], z_i[l], c_i[l])]
           zr2 == [l \in LaneIdx |-> Select(unfinished[l], next_z_r[l], z_r[l])]
           zi2 == [l \in LaneIdx |-> Select(unfinished[l], next_z_i[l], z_i[l])]
           abs_square == [l \in LaneIdx |-> AbsSquare(zr2[l], zi2[l])]
           unf2 == [l \in LaneIdx |-> FLe(abs_square[l], Four)]
       IN  /\ z_r' = zr2
           /\ z_i' = zi2
           /\ unfinished' = unf2
           /\ iter' = [l \in LaneIdx |-> Select(unf2[l], FAdd(iter[l], One), iter[l])]
           /\ IF \A l \in LaneIdx : ~unf2[l]
              THEN n' = n /\ pc' = "simd_store"
              ELSE n' = n + 1 /\ pc' = IF n + 1 < MAX_ITER THEN "simd_iter" ELSE "simd_store"
    /\ UNCHANGED <<inputs, image, files, stdout, y, x, c_r, c_i, history>>

\* lines 72-85: scatter the lanes, then advance x by the lane count
SimdStore ==
    /\ pc = "simd_store"
    /\ Store([l \in LaneIdx |-> Index(Vx(x)[l], y)],
             [l \in LaneIdx |-> ToU8(iter[l])], Lanes, "simd", "simd_group")
    /\ IF x + Lanes < width
       THEN x' = x + Lanes /\ y' = y
       ELSE x' = 0 /\ y' = y + 1
    /\ UNCHANGED <<inputs, files, stdout, n, c_r, c_i, z_r, z_i, unfinished, iter, events>>

SimdReturn ==
    /\ pc = "simd_group" /\ y >= height
    /\ events' = Append(events, "simd_done")
    /\ stdout' = Append(stdout, "SIMD: Time taken (ms)")
    /\ IdleLocals
    /\ pc' = AfterSimd
    /\ UNCHANGED <<inputs, image, files, written, owner, oob>>

\* ------------------------------------------------------------- mandlebrot
ScalarBreakGe(a) == ~FLe(a, Four) \/ a = Four

\* if abs_square > 4. { break; }
ScalarBreak(a) == FGt(a, Four)

ScalarCall ==
    /\ pc = "seq_call"
    /\ events' = Append(events, "seq_start")
    /\ written' = [i \in Indices |-> 0]
    /\ y' = 0 /\ x' = 0
    /\ pc' = "seq_pixel"
    /\ UNCHANGED <<inputs, image, files, stdout, n, c_r, c_i, z_r, z_i,
                   unfinished, iter, owner, oob>>

\* lines 101-109: start the pixel (x, y)
ScalarPixel ==
    /\ pc = "seq_pixel" /\ y < height
    /\ c_r' = MapR(FromInt(x))
    /\ c_i' = MapI(y)
    /\ z_r' = c_r'
    /\ z_i' = c_i'
    /\ iter' = 0
    /\ n' = 1
    /\ pc' = "seq_iter"
    /\ UNCHANGED <<inputs, image, files, stdout, y, x, unfinished, history>>

\* lines 111-123: one pass of `for _ in 1..MAX_ITER`
ScalarIter ==
    /\ pc = "seq_iter"
    /\ z_r' = NextZr(z_r, z_i, c_r)
    /\ z_i' = NextZi(z_r, z_i, c_i)
    /\ IF ScalarBreak(AbsSquare(z_r', z_i'))
       THEN iter' = iter /\ n' = n /\ pc' = "seq_store"
       ELSE /\ iter' = iter + 1
            /\ n' = n + 1
            /\ pc' = IF n + 1 < MAX_ITER THEN "seq_iter" ELSE "seq_store"
    /\ UNCHANGED <<inputs, image, files, stdout, y, x, c_r, c_i, unfinished, history>>

\* lines 124-125: store the pixel, then advance x
ScalarStore ==
    /\ pc = "seq_store"
    /\ Store([k \in {0} |-> Index(FromInt(x), y)], [k \in {0} |-> IntToU8(iter)],
             1, "seq", "seq_pixel")
    /\ IF x + 1 < width
       THEN x' = x + 1 /\ y' = y
       ELSE x' = 0 /\ y' = y + 1
    /\ UNCHANGED <<inputs, files, stdout, n, c_r, c_i, z_r, z_i, unfinished, iter, events>>

ScalarReturn ==
    /\ pc = "seq_pixel" /\ y >= height
    /\ events' = Append(events, "seq_done")
    /\ stdout' = Append(stdout, "SEQ: Time taken (ms)")
    /\ IdleLocals
    /\ pc' = "seq_write"
    /\ UNCHANGED <<inputs, image, files, written, owner, oob>>

\* ---------------------------------------------------------- specification
Next ==
    \/ MainOther \/ MainAlloc \/ Detect
    \/ SimdCall \/ SimdGroup \/ SimdIter \/ SimdStore \/ SimdReturn
    \/ WriteSimd
    \/ ScalarCall \/ ScalarPixel \/ ScalarIter \/ ScalarStore \/ ScalarReturn
    \/ WriteSeq

Spec == Init /\ [][Next]_vars

SpecAnyWidth == InitAnyWidth /\ [][Next]_vars

TypeOK ==
    /\ pc \in {"main", "detect", "simd_call", "simd_group", "simd_iter", "simd_store",
               "simd_write", "seq_call", "seq_pixel", "seq_iter", "seq_store",
               "seq_write", "done", "panic"}
    /\ \A i \in DOMAIN image : image[i] \in 0 .. U8Max

\* =================================================================== properties
SimdPcs == {"simd_group", "simd_iter", "simd_store"}
ScalarPcs == {"seq_pixel", "seq_iter", "seq_store"}

SimdFile == files[SimdPng]
SeqFile == files[SeqPng]
BothWritten == SimdFile # NoFile /\ SeqFile # NoFile

\* the sample point of the pixel stored at index i
SampleR(i) == MapR(FromInt(i % width))
SampleI(i) == MapI(i \div width)

\* The orbit of c, z0 = c, z(k) = z(k-1)^2 + c for k = 1 .. MAX_ITER-1: the
\* first step k whose |z|^2 exceeds 4, 0 when |z|^2 <= 4 after every step,
\* -k when |z|^2 is NaN at step k before any step exceeds 4.
Running == 0 - MAX_ITER

\* one step of the orbit; s.k is the number of the step taken
OrbitStep(s) ==
    IF s.res # Running THEN s
    ELSE LET nr == NextZr(s.zr, s.zi, s.cr)
             ni == NextZi(s.zr, s.zi, s.ci)
             a == AbsSquare(nr, ni)
         IN  [s EXCEPT !.zr = nr, !.zi = ni, !.k = s.k + 1,
                       !.res = IF a = NaN THEN 0 - s.k
                               ELSE IF a > Four THEN s.k
                               ELSE Running]

\* OrbitStep applied cnt times (cnt >= 1)
RECURSIVE OrbitSteps(_, _)
OrbitSteps(s, cnt) ==
    IF cnt = 1 THEN OrbitStep(s)
    ELSE LET half == OrbitSteps(s, cnt \div 2)
         IN  IF half.res # Running THEN half ELSE OrbitSteps(half, cnt - cnt \div 2)

Orbit(i) ==
    LET r == OrbitSteps([zr |-> SampleR(i), zi |-> SampleI(i), cr |-> SampleR(i),
                         ci |-> SampleI(i), k |-> 1, res |-> Running], MAX_ITER - 1).res
    IN  IF r = Running THEN 0 ELSE r

Min(a, b) == IF a < b THEN a ELSE b

\* the file contents are compared once, in the state right after the write
SimdFileFresh == pc = "seq_call" /\ SimdFile # NoFile
SeqFileFresh == pc = "done" /\ SeqFile # NoFile

\* C1: run on the same area, width (a multiple of 8) and height, the two
\* kernels leave byte-identical buffers: the two files hold the same bytes.
C1_ByteIdentical == BothWritten => SimdFile = SeqFile

\* C2: with width a multiple of 8, every store of either kernel targets an
\* index in 0 .. width*height-1, no index is stored twice during a run, and
\* when a kernel returns every index has been stored exactly once; the
\* buffer has width*height entries.
C2_EachIndexOnce ==
    /\ ~oob
    /\ pc \notin {"main", "done", "panic"} => DOMAIN image = Indices
    /\ pc \in SimdPcs \cup ScalarPcs => \A i \in Indices : written[i] <= 1
    /\ pc \in {"simd_write", "seq_write"} => \A i \in Indices : written[i] = 1

C2_Witness ==
    /\ pc = "seq_write" /\ width = 2 * Lanes /\ height = 2
    /\ \A i \in Indices : written[i] = 1 /\ owner[i] = "seq"

\* C3: a pixel whose orbit has |z|^2 <= 4 after each of the 255 steps, in
\* particular the pixel of c = (0, 0), is stored as 255 by both kernels.
C3_BoundedIs255 ==
    /\ SimdFileFresh =>
         \A i \in Indices :
            (Orbit(i) = 0 \/ (SampleR(i) = 0 /\ SampleI(i) = 0)) => SimdFile[i] = MAX_ITER - 1
    /\ SeqFileFresh =>
         \A i \in Indices :
            (Orbit(i) = 0 \/ (SampleR(i) = 0 /\ SampleI(i) = 0)) => SeqFile[i] = MAX_ITER - 1

C3_Witness ==
    /\ pc = "done" /\ BothWritten
    /\ \E i \in Indices :
          /\ SampleR(i) = 0 /\ SampleI(i) = 0
          /\ SimdFile[i] = MAX_ITER - 1 /\ SeqFile[i] = MAX_ITER - 1
    /\ \E i \in Indices : Orbit(i) > 0

\* C4: a pixel whose |z|^2 exceeds 4 after the first update, such as the
\* pixel of c = (2.0, 0.0), is stored as 0 by the scalar kernel and as 1 by
\* the vector kernel.
C4_FirstStepEscape ==
    /\ SimdFileFresh =>
         \A i \in Indices :
            (Orbit(i) = 1 \/ (SampleR(i) = FromInt(2) /\ SampleI(i) = 0)) => SimdFile[i] = 1
    /\ SeqFileFresh =>
         \A i \in Indices :
            (Orbit(i) = 1 \/ (SampleR(i) = FromInt(2) /\ SampleI(i) = 0)) => SeqFile[i] = 0

C4_Witness ==
    /\ pc = "done" /\ BothWritten
    /\ \E i \in Indices :
          /\ SampleR(i) = FromInt(2) /\ SampleI(i) = 0
          /\ SimdFile[i] = 1 /\ SeqFile[i] = 0

\* C5: asked to render a width that is not a multiple of 8, the vector
\* kernel is rejected before computing: it stores no pixel at all, and it
\* never accesses an index >= width*height.
C5_RejectsBadWidth ==
    (width % Lanes # 0) =>
        /\ ~oob
        /\ \A i \in DOMAIN owner : owner[i] # "simd"

\* C6: the buffer is not mutated between a kernel returning and the write
\* of that kernel's file; the events happen in the order vector kernel
\* completes, mandlebrot_simd.png written, scalar kernel starts, scalar
\* kernel completes, mandlebrot_sequential.png written; and the bytes of
\* each file are the buffer at the write, every entry of which was stored
\* by that file's kernel.
EventOrder == <<"simd_start", "simd_done", "simd_png", "seq_start", "seq_done", "seq_png">>

C6_WriteStep ==
    /\ pc \in {"simd_write", "seq_write"} => image' = image
    /\ (pc = "simd_write" /\ pc' # "panic") =>
          /\ files'[SimdPng] = image
          /\ \A i \in Indices : owner[i] = "simd" /\ written[i] = 1
    /\ (pc = "seq_write" /\ pc' # "panic") =>
          /\ files'[SeqPng] = image
          /\ files'[SimdPng] = files[SimdPng]
          /\ \A i \in Indices : owner[i] = "seq" /\ written[i] = 1

C6_Sequencing ==
    /\ [][C6_WriteStep]_vars
    /\ [](events = SubSeq(EventOrder, 1, Len(events)))
    /\ [](pc \in ScalarPcs => SimdFile # NoFile)

C6_Witness ==
    /\ pc = "done" /\ events = EventOrder
    /\ BothWritten /\ SimdFile # SeqFile
    /\ SeqFile = image

\* C7: mandlebrot_simd runs only when the AVX2 query answered true; when it
\* answers false main prints a message, never calls mandlebrot_simd and
\* ends without writing a file.
C7_OnlyWithAvx2 ==
    /\ (pc \in SimdPcs \/ events # << >>) => avx2
    /\ ~avx2 => /\ pc \in {"main", "detect", "done"}
                /\ files = [p \in Paths |-> NoFile]
                /\ image \in {NoFile, [i \in Indices |-> 0]}
    /\ (~avx2 /\ pc = "done") =>
          /\ Len(stdout) = 1
          /\ stdout[1] \in {"AVX2 is not supported on this platform.",
                            "SIMD and AVX2 are not supported on this platform."}

C7_Witness ==
    /\ pc = "done" /\ arch = "x86_64" /\ ~avx2
    /\ stdout = <<"AVX2 is not supported on this platform.">>
    /\ files = [p \in Paths |-> NoFile]

\* one pass of the vector loop body on a single lane, without the early exit
LaneStep(s) ==
    LET zr2 == IF s.unf THEN NextZr(s.zr, s.zi, s.cr) ELSE s.zr
        zi2 == IF s.unf THEN NextZi(s.zr, s.zi, s.ci) ELSE s.zi
        unf2 == FLe(AbsSquare(zr2, zi2), Four)
    IN  [s EXCEPT !.zr = zr2, !.zi = zi2, !.unf = unf2,
                  !.it = IF unf2 THEN FAdd(s.it, One) ELSE s.it]

\* LaneStep applied cnt times (cnt >= 1)
RECURSIVE LaneSteps(_, _)
LaneSteps(s, cnt) ==
    IF cnt = 1 THEN LaneStep(s)
    ELSE LET half == LaneSteps(s, cnt \div 2)
         IN  IF half.unf \in BOOLEAN THEN LaneSteps(half, cnt - cnt \div 2) ELSE half

\* the lane's counter after all MAX_ITER-1 passes
FullRunIter(cr, ci) ==
    LaneSteps([zr |-> cr, zi |-> ci, cr |-> cr, ci |-> ci, unf |-> TRUE, it |-> One],
              MAX_ITER - 1).it

C8_Frozen ==
    pc = "simd_iter" =>
        \A l \in LaneIdx :
            ~unfinished[l] =>
                /\ ~unfinished'[l]
                /\ z_r'[l] = z_r[l] /\ z_i'[l] = z_i[l]
                /\ iter'[l] = iter[l]

C8_SameAsFullRun ==
    pc = "simd_store" => \A l \in LaneIdx : iter[l] = FullRunIter(c_r[l], c_i[l])

\* C8: in the vector loop a lane whose mask is false keeps a false mask and
\* its z_r, z_i and iter for the rest of the group's loop; so every lane's
\* final iter, with the break on an all-false mask, equals its iter after
\* all MAX_ITER-1 = 255 passes without the break.
C8_EarlyExit == [][C8_Frozen]_vars /\ [](C8_SameAsFullRun)

\* the loop broke early on a group whose lanes stopped at different passes
C8_Witness ==
    /\ pc = "simd_store" /\ n < MAX_ITER - 1 /\ n > 2
    /\ \A l \in LaneIdx : ~unfinished[l]
    /\ \E l1, l2 \in LaneIdx : FAdd(iter[l1], One) < iter[l2]

\* the scalar loop body's next z and its |z|^2, from the current state
ScalarNextZr == NextZr(z_r, z_i, c_r)
ScalarNextZi == NextZi(z_r, z_i, c_i)
ScalarNextAbs == AbsSquare(ScalarNextZr, ScalarNextZi)

C9_StepOriginal ==
    pc = "seq_iter" =>
        IF FGt(ScalarNextAbs, Four)
        THEN pc' = "seq_store" /\ iter' = iter /\ z_r' = z_r /\ z_i' = z_i
        ELSE z_r' = ScalarNextZr /\ z_i' = ScalarNextZi /\ iter' = iter + 1

\* C9 as stated: on the step whose next |z|^2 exceeds 4.0 the scalar loop
\* stops with iter and the committed (z_r, z_i) as before the step; on every
\* other step z_r, z_i become the new values and iter grows by exactly 1.
C9_NoCommitOnEscape == [][C9_StepOriginal]_vars

C9_StepAmended ==
    pc = "seq_iter" =>
        /\ z_r' = ScalarNextZr /\ z_i' = ScalarNextZi
        /\ IF FGt(ScalarNextAbs, Four)
           THEN pc' = "seq_store" /\ iter' = iter
           ELSE pc' \in {"seq_iter", "seq_store"} /\ iter' = iter + 1

\* C9 amended: on the step whose next |z|^2 exceeds 4.0 the scalar loop
\* stops with iter as before the step, and z_r, z_i already set to the new
\* values; on every other step z_r, z_i become the new values and iter
\* grows by exactly 1.
C9_CommitThenBreak == [][C9_StepAmended]_vars

\* the loop has just broken: the committed z is the escaped one
C9_Witness ==
    /\ pc = "seq_store" /\ n < MAX_ITER /\ iter = n - 1 /\ iter > 0
    /\ FGt(AbsSquare(z_r, z_i), Four)

====
